---- MODULE Spec2Model ----
(***************************************************************************)
(* A model of the OpenAPI client generator (src/src/generator.ts) and of   *)
(* the request primitive the generated clients call (src/src/request.ts).  *)
(*                                                                         *)
(* Text is modelled as a sequence of tokens: a name that the naming        *)
(* functions read is a sequence of one-character strings; fixed pieces of  *)
(* the generator's templates ("Request", "ApiType.", "[]") are one token.  *)
(* A JavaScript value that may be undefined is a sequence of length 0      *)
(* (undefined) or 1 (the value).                                           *)
(***************************************************************************)
EXTENDS Naturals, Sequences, FiniteSets, TLC

VARIABLES
    api,                       \* the loaded OpenAPI document
    nStr, nOut, nPc,           \* naming: the input, the result, which function ran
    tSchema, tGlobal, tOut, tPc, \* type synthesis: schema, isGlobalType, result, which function ran
    pc,                        \* generateClientCode: where the run is
    pathIdx,                   \* the entry of Object.entries(api.paths) the grouping loop is at
    tagGroups,                 \* the index built so far, and whether building it threw
    tagIdx,                    \* the entry of Object.entries(tagGroups) the writing loop is at
    computed,                  \* the names of the artifacts whose content has been computed
    fsWrites,                  \* the calls of fs.writeFileSync so far: name and content
    gOps, gOut, gPc,           \* generateTagFile: the group, the artifact, whether it ran
    rItem, rCallable, rPc,     \* a generated callable and the state of one call of it
    rSignal,                   \* the caller's AbortSignal: "none", "live" or "aborted"
    rListening,                \* wxRequest registered its abort listener on the signal
    rTaskAborted,              \* task.abort() was called on the wx.request task
    rAbortedInFlight,          \* the signal was aborted while the call was in flight
    eOps, eOut, ePc            \* the type emitters: the operations, the declarations, which one ran

namingVars == <<nStr, nOut, nPc>>
typeVars == <<tSchema, tGlobal, tOut, tPc>>
genVars == <<pc, pathIdx, tagGroups, tagIdx, computed, fsWrites>>
tagVars == <<gOps, gOut, gPc>>
reqVars == <<rItem, rCallable, rPc, rSignal, rListening, rTaskAborted, rAbortedInFlight>>
emitVars == <<eOps, eOut, ePc>>
vars == <<api, nStr, nOut, nPc, tSchema, tGlobal, tOut, tPc,
          pc, pathIdx, tagGroups, tagIdx, computed, fsWrites,
          gOps, gOut, gPc,
          rItem, rCallable, rPc, rSignal, rListening, rTaskAborted, rAbortedInFlight,
          eOps, eOut, ePc>>

None == <<>>
Some(v) == <<v>>

Last(s) == s[Len(s)]

SeqToSet(s) == {s[i] : i \in 1..Len(s)}

(***************************************************************************)
(* JavaScript objects used as dictionaries                                 *)
(*                                                                         *)
(* An object is the sequence of its own [key, value] entries in insertion  *)
(* order, the keys distinct.  Object.entries lists the keys that are array *)
(* indices first, in ascending numeric order, then the others in insertion *)
(* order.  A lookup obj[key] that finds no own key falls through to        *)
(* Object.prototype.                                                       *)
(***************************************************************************)

\* The array-index keys the model's documents use, ascending.
ArrayIndexKeys == <<"0", "1">>

\* Members of Object.prototype, which every plain object inherits.
PrototypeKeys == {"constructor", "toString", "valueOf", "hasOwnProperty", "__proto__"}

IsArrayIndex(k) == \E i \in 1..Len(ArrayIndexKeys) : ArrayIndexKeys[i] = k

HasOwn(obj, k) == \E i \in 1..Len(obj) : obj[i].key = k

OwnValue(obj, k) == obj[CHOOSE i \in 1..Len(obj) : obj[i].key = k].value

RECURSIVE IndexEntries(_, _)
IndexEntries(obj, n) ==
    IF n > Len(ArrayIndexKeys) THEN <<>>
    ELSE (IF HasOwn(obj, ArrayIndexKeys[n])
          THEN <<[key |-> ArrayIndexKeys[n], value |-> OwnValue(obj, ArrayIndexKeys[n])]>>
          ELSE <<>>) \o IndexEntries(obj, n + 1)

ObjectEntries(obj) ==
    IndexEntries(obj, 1) \o SelectSeq(obj, LAMBDA e : ~IsArrayIndex(e.key))

(***************************************************************************)
(* Schema nodes (OpenAPIV3.SchemaObject | ReferenceObject), duck-typed as  *)
(* the generator reads them: every field may be absent.                    *)
(***************************************************************************)

Schema(ref, type, properties, required, items, anyOf) ==
    [ref |-> ref, type |-> type, properties |-> properties,
     required |-> required, items |-> items, anyOf |-> anyOf]

\* {}: also what a schema of a kind the generator does not look at reads as.
EmptySchema == Schema(None, "undefined", None, None, None, None)
RefSchema(segments) == Schema(Some(segments), "undefined", None, None, None, None)
Primitive(type) == Schema(None, type, None, None, None, None)
ObjectSchema(properties, required) ==
    Schema(None, "object", Some(properties), required, None, None)
ArraySchema(items) == Schema(None, "array", None, None, items, None)
AnyOfSchema(alternatives) == Schema(None, "undefined", None, None, None, Some(alternatives))

\* "#/components/schemas/<name>" split at '/'.
SchemaRef(name) == <<"#", "components", "schemas", name>>

\* The document: api.paths and api.components?.schemas.
Document(paths, schemas) == [paths |-> paths, schemas |-> schemas]

(***************************************************************************)
(* Reference Resolver                                                      *)
(***************************************************************************)

\* resolveRef: walks ref.split('/').slice(1) down from the document and
\* returns null (None) as soon as a step finds nothing.  The documents of the
\* model hold schemas under components.schemas only, so every other first
\* step finds nothing.  A step to a name the registry does not own finds the
\* member of Object.prototype of that name, when there is one: a value with
\* none of the fields of a schema.
resolveRef(ref, a) ==
    LET parts == Tail(ref)
    IN  IF Len(parts) = 3 /\ parts[1] = "components" /\ parts[2] = "schemas"
           /\ a.schemas # None
        THEN IF HasOwn(a.schemas[1], parts[3])
             THEN Some(OwnValue(a.schemas[1], parts[3]))
             ELSE IF parts[3] \in PrototypeKeys THEN Some(EmptySchema) ELSE None
        ELSE None

(***************************************************************************)
(* Type Synthesizer                                                        *)
(***************************************************************************)

\* types.join(' | ')
RECURSIVE JoinUnion(_)
JoinUnion(types) ==
    IF types = <<>> THEN <<>>
    ELSE IF Len(types) = 1 THEN types[1]
    ELSE types[1] \o <<" | ">> \o JoinUnion(Tail(types))

\* ref.split('/').pop() || 'any'
RefName(ref) == IF Last(ref) = "" THEN "any" ELSE Last(ref)

\* getTypeFromSchema: the type expression of a schema.  A reference is
\* rendered as the name it ends in, never resolved.
RECURSIVE getTypeFromSchema(_, _, _)
getTypeFromSchema(schema, a, isGlobalType) ==
    IF schema.ref # None
    THEN IF isGlobalType THEN <<RefName(schema.ref[1])>>
         ELSE <<"ApiType.", RefName(schema.ref[1])>>
    ELSE IF schema.anyOf # None
    THEN JoinUnion([i \in 1..Len(schema.anyOf[1]) |->
                        getTypeFromSchema(schema.anyOf[1][i], a, isGlobalType)])
    ELSE CASE schema.type = "string" -> <<"string">>
           [] schema.type \in {"number", "integer"} -> <<"number">>
           [] schema.type = "boolean" -> <<"boolean">>
           [] schema.type = "array" ->
                IF schema.items # None
                THEN getTypeFromSchema(schema.items[1], a, isGlobalType) \o <<"[]">>
                ELSE <<"any[]">>
           [] schema.type = "object" -> <<"any">>
           [] OTHER -> <<"any">>

\* The declarations generateTypeFromSchema returns:
\*   export interface <name> { <key><?>: <type>; ... }
\*   export type <name> = <type>; [// Unable to resolve ref: <ref>]
\* and the RangeError of a recursion that never ends.
InterfaceDecl(name, fields) ==
    [form |-> "interface", name |-> name, fields |-> fields, type |-> <<>>, comment |-> None]
AliasDecl(name, type, comment) ==
    [form |-> "alias", name |-> name, fields |-> <<>>, type |-> type, comment |-> comment]
RangeError == [form |-> "RangeError", name |-> <<>>, fields |-> <<>>, type |-> <<>>, comment |-> None]

\* The negation dropped: schema.required?.includes(key) ? '?' : ''
IsOptionalNegationDropped(schema, key) == schema.required # None /\ key \in schema.required[1]

\* !schema.required?.includes(key) ? '?' : ''
IsOptional(schema, key) == ~(schema.required # None /\ key \in schema.required[1])

\* One line "  <key><optional>: <propType>;" of an interface.
PropertyLine(schema, entry, a, isGlobalType) ==
    [key |-> entry.key,
     optional |-> IsOptional(schema, entry.key),
     type |-> getTypeFromSchema(entry.value, a, isGlobalType)]

\* generateTypeFromSchema.  `depth` is the number of references the call may
\* still resolve: a chain that resolves more references than the registry has
\* entries is a cycle, on which the function recurses until the call stack
\* overflows.
RECURSIVE TypeFromSchema(_, _, _, _, _)
TypeFromSchema(schema, typeName, a, isGlobalType, depth) ==
    IF schema.ref # None
    THEN LET resolvedSchema == resolveRef(schema.ref[1], a)
         IN  IF resolvedSchema # None
             THEN IF depth = 0 THEN RangeError
                  ELSE TypeFromSchema(resolvedSchema[1], typeName, a, isGlobalType, depth - 1)
             ELSE AliasDecl(typeName, <<"any">>, Some(schema.ref[1]))
    ELSE IF schema.type = "object" /\ schema.properties # None
    THEN LET entries == ObjectEntries(schema.properties[1])
         IN  InterfaceDecl(typeName,
                 [i \in 1..Len(entries) |-> PropertyLine(schema, entries[i], a, isGlobalType)])
    ELSE IF schema.type = "array" /\ schema.items # None
    THEN AliasDecl(typeName, getTypeFromSchema(schema.items[1], a, isGlobalType) \o <<"[]">>, None)
    ELSE AliasDecl(typeName, getTypeFromSchema(schema, a, isGlobalType), None)

RegistrySize(a) == IF a.schemas = None THEN 0 ELSE Len(a.schemas[1])

generateTypeFromSchema(schema, typeName, a, isGlobalType) ==
    TypeFromSchema(schema, typeName, a, isGlobalType, RegistrySize(a) + 1)

(***************************************************************************)
(* Naming Normalizer: toPascalCase and toCamelCase                         *)
(***************************************************************************)

LowerLetters == <<"a","b","c","d","e","f","g","h","i","j","k","l","m",
                  "n","o","p","q","r","s","t","u","v","w","x","y","z">>
UpperLetters == <<"A","B","C","D","E","F","G","H","I","J","K","L","M",
                  "N","O","P","Q","R","S","T","U","V","W","X","Y","Z">>
Digits == {"0","1","2","3","4","5","6","7","8","9"}

\* String.prototype.toUpperCase on one character.
toUpperCase(c) ==
    IF \E i \in 1..Len(LowerLetters) : LowerLetters[i] = c
    THEN UpperLetters[CHOOSE i \in 1..Len(LowerLetters) : LowerLetters[i] = c]
    ELSE c

\* The regular expression class \w: [A-Za-z0-9_].
WordChars == SeqToSet(LowerLetters) \cup SeqToSet(UpperLetters) \cup Digits \cup {"_"}

\* The regular expression class \s (the line terminators, which "." does not
\* match, are all in \s).
Whitespace == {" ", "\t", "\n"}

\* The class [-_\s] of toCamelCase.
CamelSeparators == {"-", "_"} \cup Whitespace

\* The greedy run [-_\s]+ : the first position at or after p that holds no separator.
RECURSIVE SkipSeparators(_, _)
SkipSeparators(str, p) ==
    IF p <= Len(str) /\ str[p] \in CamelSeparators
    THEN SkipSeparators(str, p + 1)
    ELSE p

\* str.replace(/[-_\s]+(.)?/g, (_, c) => c ? c.toUpperCase() : '') from position p.
RECURSIVE CamelFrom(_, _)
CamelFrom(str, p) ==
    IF p > Len(str) THEN <<>>
    ELSE IF str[p] \in CamelSeparators
         THEN LET q == SkipSeparators(str, p)
              IN  IF q <= Len(str)
                  THEN <<toUpperCase(str[q])>> \o CamelFrom(str, q + 1)
                  ELSE <<>>
         ELSE <<str[p]>> \o CamelFrom(str, p + 1)

toCamelCase(str) == CamelFrom(str, 1)

\* str.replace(/(^\w|-\w)/g, (match) => match.replace('-', '').toUpperCase())
\* from position p: "^\w" matches only at the start of the string, "-\w" anywhere.
RECURSIVE PascalFrom(_, _)
PascalFrom(str, p) ==
    IF p > Len(str) THEN <<>>
    ELSE IF p = 1 /\ str[p] \in WordChars
         THEN <<toUpperCase(str[p])>> \o PascalFrom(str, p + 1)
    ELSE IF str[p] = "-" /\ p < Len(str) /\ str[p + 1] \in WordChars
         THEN <<toUpperCase(str[p + 1])>> \o PascalFrom(str, p + 2)
    ELSE <<str[p]>> \o PascalFrom(str, p + 1)

toPascalCase(str) == PascalFrom(str, 1)

(***************************************************************************)
(* Operations, and the Group File Emitter                                  *)
(***************************************************************************)

\* An operation as the generator reads it: requestBody is
\* requestBody.content?.['application/json']?.schema and response200 is
\* responses?.['200']?.content?.['application/json']?.schema.
Operation(operationId, summary, tags, requestBody, response200) ==
    [operationId |-> operationId, summary |-> summary, tags |-> tags,
     requestBody |-> requestBody, response200 |-> response200]

\* One element of a tag group.
Item(operation, pathName, method) ==
    [operation |-> operation, path |-> pathName, method |-> method]

Unknown == <<"u", "n", "k", "n", "o", "w", "n">>

\* operation.operationId || operation.summary || 'unknown': an empty string
\* counts as absent.
OperationName(operation) ==
    IF operation.operationId # None /\ operation.operationId[1] # <<>>
    THEN operation.operationId[1]
    ELSE IF operation.summary # None /\ operation.summary[1] # <<>>
    THEN operation.summary[1]
    ELSE Unknown

\* httpMethod.toUpperCase()
MethodUpperCase(method) ==
    CASE method = "get" -> "GET" [] method = "post" -> "POST" [] method = "put" -> "PUT"
      [] method = "delete" -> "DELETE" [] method = "patch" -> "PATCH"
      [] method = "head" -> "HEAD" [] method = "options" -> "OPTIONS"
      [] method = "trace" -> "TRACE"

\* `ApiType.${$ref.split('/').pop() || 'any'}`
QualifiedRefType(schema) == <<"ApiType.", RefName(schema.ref[1])>>

\* The request and response types generateMethod puts in the signature.
RequestType(operation) ==
    IF operation.requestBody = None THEN <<"any">>
    ELSE IF operation.requestBody[1].ref # None THEN QualifiedRefType(operation.requestBody[1])
    ELSE toPascalCase(OperationName(operation)) \o <<"Request">>

ResponseType(operation) ==
    IF operation.response200 = None THEN <<"any">>
    ELSE IF operation.response200[1].ref # None THEN QualifiedRefType(operation.response200[1])
    ELSE toPascalCase(OperationName(operation)) \o <<"Response">>

\* generateMethod: the callable
\*   export async function <name>(<params>): Promise<<returns>> {
\*     return request('<url>', '<METHOD>', <data | undefined>);
\*   }
\* params are the declared parameters, args the arguments of the request call
\* (the literal path, the literal method, then data or undefined).
generateMethod(item, a) ==
    LET httpMethodUpper == MethodUpperCase(item.method)
        dataParam == IF httpMethodUpper \in {"GET", "DELETE"} THEN "" ELSE "data"
    IN  [name |-> toCamelCase(OperationName(item.operation)),
         params |-> IF dataParam # ""
                    THEN <<[name |-> "data", type |-> RequestType(item.operation)]>>
                    ELSE <<>>,
         returns |-> ResponseType(item.operation),
         url |-> item.path,
         method |-> httpMethodUpper,
         args |-> <<item.path, httpMethodUpper, IF dataParam # "" THEN dataParam ELSE "undefined">>]

\* The types named as generateTypes names them, with 'Request' and 'Response'
\* for an operation that has neither operationId nor summary.
InlineTypesOfNamedAsGenerateTypes(operation, a) ==
    LET stem(default) ==
            IF OperationName(operation) = Unknown THEN toPascalCase(default)
            ELSE toPascalCase(OperationName(operation))
    IN  (IF operation.requestBody # None /\ operation.requestBody[1].ref = None
         THEN <<generateTypeFromSchema(operation.requestBody[1],
                    stem(<<"R", "e", "q", "u", "e", "s", "t">>) \o <<"Request">>, a, FALSE)>>
         ELSE <<>>)
        \o
        (IF operation.response200 # None /\ operation.response200[1].ref = None
         THEN <<generateTypeFromSchema(operation.response200[1],
                    stem(<<"R", "e", "s", "p", "o", "n", "s", "e">>) \o <<"Response">>, a, FALSE)>>
         ELSE <<>>)

\* The declarations generateInlineTypes emits for one operation: the request
\* type, then the response type, each only for a schema that is no reference.
InlineTypesOf(operation, a) ==
    (IF operation.requestBody # None /\ operation.requestBody[1].ref = None
     THEN <<generateTypeFromSchema(operation.requestBody[1],
                toPascalCase(OperationName(operation)) \o <<"Request">>, a, FALSE)>>
     ELSE <<>>)
    \o
    (IF operation.response200 # None /\ operation.response200[1].ref = None
     THEN <<generateTypeFromSchema(operation.response200[1],
                toPascalCase(OperationName(operation)) \o <<"Response">>, a, FALSE)>>
     ELSE <<>>)

RECURSIVE generateInlineTypes(_, _)
generateInlineTypes(operations, a) ==
    IF operations = <<>> THEN <<>>
    ELSE InlineTypesOf(operations[1].operation, a) \o generateInlineTypes(Tail(operations), a)

\* generateTagFile: the imports, the inline declarations, then one callable
\* per element of the group, in the group's order.
generateTagFile(tag, operations, a) ==
    [imports |-> <<"./request", "./types">>,
     types |-> generateInlineTypes(operations, a),
     methods |-> [i \in 1..Len(operations) |-> generateMethod(operations[i], a)]]

(***************************************************************************)
(* Global Type Emitter                                                     *)
(***************************************************************************)

\* An entry that is a reference declared under the name the reference ends
\* in: generateTypeFromSchema(schema, refName, api, true)
generateGlobalTypesNamedByTarget(a) ==
    IF a.schemas = None THEN <<>>
    ELSE LET entries == ObjectEntries(a.schemas[1])
         IN  [i \in 1..Len(entries) |->
                 generateTypeFromSchema(entries[i].value,
                     IF entries[i].value.ref # None
                     THEN <<RefName(entries[i].value.ref[1])>>
                     ELSE <<entries[i].key>>, a, TRUE)]

\* generateGlobalTypes: one declaration per registry entry, in the order of
\* Object.entries, named by the entry's key.
generateGlobalTypes(a) ==
    IF a.schemas = None THEN <<>>
    ELSE LET entries == ObjectEntries(a.schemas[1])
         IN  [i \in 1..Len(entries) |->
                 generateTypeFromSchema(entries[i].value, <<entries[i].key>>, a, TRUE)]

\* A declaration whose synthesis overflowed the stack: the exception leaves
\* the emitter.
Throws(declarations) ==
    \E i \in 1..Len(declarations) : declarations[i].form = "RangeError"

(***************************************************************************)
(* Operation Indexer: the grouping loop of generateClientCode              *)
(***************************************************************************)

methods == <<"get", "post", "put", "delete", "patch", "head", "options", "trace">>

\* The element put first in its group (unshift where the code has push).
PushToTagFirst(index, tag, item) ==
    IF index.thrown THEN index
    ELSE IF HasOwn(index.groups, tag)
    THEN [index EXCEPT !.groups =
            [i \in 1..Len(index.groups) |->
                IF index.groups[i].key = tag
                THEN [key |-> tag, value |-> <<item>> \o index.groups[i].value]
                ELSE index.groups[i]]]
    ELSE IF tag \in PrototypeKeys
    THEN [index EXCEPT !.thrown = TRUE]
    ELSE [index EXCEPT !.groups = Append(index.groups, [key |-> tag, value |-> <<item>>])]

\* if (!tagGroups[tag]) tagGroups[tag] = []; tagGroups[tag].push(item).
\* tagGroups is a plain object: for a tag that names a member of
\* Object.prototype the lookup finds that member, no group is created and
\* .push is not a function, a TypeError.
PushToTag(index, tag, item) ==
    IF index.thrown THEN index
    ELSE IF HasOwn(index.groups, tag)
    THEN [index EXCEPT !.groups =
            [i \in 1..Len(index.groups) |->
                IF index.groups[i].key = tag
                THEN [key |-> tag, value |-> Append(index.groups[i].value, item)]
                ELSE index.groups[i]]]
    ELSE IF tag \in PrototypeKeys
    THEN [index EXCEPT !.thrown = TRUE]
    ELSE [index EXCEPT !.groups = Append(index.groups, [key |-> tag, value |-> <<item>>])]

\* for (const tag of tags) ...
RECURSIVE PushToTags(_, _, _)
PushToTags(index, tags, item) ==
    IF tags = <<>> THEN index
    ELSE PushToTags(PushToTag(index, tags[1], item), Tail(tags), item)

\* operation.tags || ['default']: an empty list is truthy and stays empty.
TagsOf(operation) == IF operation.tags # None THEN operation.tags[1] ELSE <<"default">>

\* for (const method of methods) ... from the m-th method on.
RECURSIVE IndexMethods(_, _, _, _)
IndexMethods(index, pathName, pathItem, m) ==
    IF m > Len(methods) THEN index
    ELSE IF HasOwn(pathItem, methods[m])
    THEN LET operation == OwnValue(pathItem, methods[m])
         IN  IndexMethods(
                 PushToTags(index, TagsOf(operation), Item(operation, pathName, methods[m])),
                 pathName, pathItem, m + 1)
    ELSE IndexMethods(index, pathName, pathItem, m + 1)

(***************************************************************************)
(* Orchestrator: generateClientCode on bounded documents                   *)
(***************************************************************************)

\* The parts of the model a specification leaves alone.
NamingIdle == nStr = <<>> /\ nOut = <<>> /\ nPc = "idle"
TypesIdle == tSchema = EmptySchema /\ tGlobal = FALSE /\ tOut = RangeError /\ tPc = "idle"
GenIdle ==
    /\ pc = "idle" /\ pathIdx = 0 /\ tagIdx = 0
    /\ tagGroups = [groups |-> <<>>, thrown |-> FALSE]
    /\ computed = <<>> /\ fsWrites = <<>>

NoArtifact == [imports |-> <<>>, types |-> <<>>, methods |-> <<>>]
NoCallable ==
    [name |-> <<>>, params |-> <<>>, returns |-> <<>>, url |-> "", method |-> "", args |-> <<>>]
NoItem == [operation |-> Operation(None, None, None, None, None), path |-> "", method |-> "get"]

TagIdle == gOps = <<>> /\ gOut = NoArtifact /\ gPc = "idle"
ReqIdle ==
    /\ rItem = NoItem /\ rCallable = NoCallable /\ rPc = "idle"
    /\ rSignal = "none" /\ rListening = FALSE
    /\ rTaskAborted = FALSE /\ rAbortedInFlight = FALSE

EmitIdle == eOps = <<>> /\ eOut = <<>> /\ ePc = "idle"

MaxOps == 2

PathNames == {"/b", "/a", "0"}
DeclaredMethods == {"post", "get"}

InlineObject ==
    ObjectSchema(<<[key |-> "id", value |-> Primitive("string")]>>, Some({"id"}))

TagLists ==
    {None, Some(<<>>), Some(<<"x">>), Some(<<"x", "y">>), Some(<<"x", "x">>),
     Some(<<"constructor">>)}

\* The operations of the documents: every shape of the tags field.
DocumentOperations ==
    {Operation(Some(id), None, tags, Some(InlineObject), Some(InlineObject)) :
        id \in {<<"a">>, <<"b">>}, tags \in TagLists}

\* An operation declared in the document: under which path, with which
\* method.  A document declares each (path, method) once.
Declarations(operations) ==
    {l \in UNION {[1..n -> [path : PathNames, method : DeclaredMethods,
                            operation : operations]] : n \in 0..MaxOps} :
        \A i, j \in 1..Len(l) :
            i # j => ~(l[i].path = l[j].path /\ l[i].method = l[j].method)}

\* api.paths as the JSON parser builds it: a path enters at its first
\* declaration, a method enters its path item in declaration order.
RECURSIVE BuildPaths(_, _)
BuildPaths(paths, l) ==
    IF l = <<>> THEN paths
    ELSE LET d == l[1]
             entry == [key |-> d.method, value |-> d.operation]
         IN  BuildPaths(
                 IF HasOwn(paths, d.path)
                 THEN [i \in 1..Len(paths) |->
                          IF paths[i].key = d.path
                          THEN [key |-> d.path, value |-> Append(paths[i].value, entry)]
                          ELSE paths[i]]
                 ELSE Append(paths, [key |-> d.path, value |-> <<entry>>]),
                 Tail(l))

\* The registries of the documents: none, one schema, a reference to itself.
DocumentRegistries ==
    {None,
     Some(<<[key |-> "User", value |-> InlineObject]>>),
     Some(<<[key |-> "User", value |-> RefSchema(SchemaRef("User"))]>>)}

\* The document a list of declarations and a registry make.
DocumentOf(l, r) == Document(BuildPaths(<<>>, l), r)

\* Documents whose operations all have tags and all index without error, for
\* the properties of the order within the groups.
OrderedOperations ==
    {Operation(Some(id), None, tags, Some(InlineObject), Some(InlineObject)) :
        id \in {<<"a">>, <<"b">>},
        tags \in {None, Some(<<"x">>), Some(<<"x", "y">>), Some(<<"x", "x">>)}}

OrderedRegistry == Some(<<[key |-> "User", value |-> InlineObject]>>)

Artifact(imports, types, methodList) ==
    [imports |-> imports, types |-> types, methods |-> methodList]

\* path.join(outputDir, 'types.ts') and path.join(outputDir, `${tag}.ts`)
TypesFileName == <<"types", ".ts">>
TagFileName(tag) == <<tag, ".ts">>

PathEntries == ObjectEntries(api.paths)
GroupEntries == ObjectEntries(tagGroups.groups)

\* generateClientCode is entered with the loaded document.
GenStart ==
    /\ pc = "start"
    /\ pathIdx = 1 /\ tagIdx = 1
    /\ tagGroups = [groups |-> <<>>, thrown |-> FALSE]
    /\ computed = <<>> /\ fsWrites = <<>>
    /\ NamingIdle
    /\ TypesIdle
    /\ TagIdle
    /\ ReqIdle
    /\ EmitIdle

Init ==
    /\ \E l \in Declarations(DocumentOperations), r \in DocumentRegistries :
           api = DocumentOf(l, r)
    /\ GenStart

OrderInit ==
    /\ \E l \in Declarations(OrderedOperations) : api = DocumentOf(l, OrderedRegistry)
    /\ GenStart

\* Where the run goes once the grouping loop stands at entry i with index g.
AfterIndexing(i, g) ==
    IF g.thrown THEN "failed"
    ELSE IF i <= Len(PathEntries) THEN "index"
    ELSE IF g.groups = <<>> THEN "done" ELSE "emit"

\* generateClientCode, lines 42-44: the global types are generated and written
\* at once.  A registry entry that refers to itself overflows the stack and
\* the run ends there.
WriteTypesFile ==
    /\ pc = "start"
    /\ LET typesContent == generateGlobalTypes(api)
       IN  IF Throws(typesContent)
           THEN /\ pc' = "failed"
                /\ UNCHANGED <<computed, fsWrites>>
           ELSE /\ computed' = Append(computed, TypesFileName)
                /\ fsWrites' = Append(fsWrites,
                       [name |-> TypesFileName, content |-> Artifact(<<>>, typesContent, <<>>)])
                /\ pc' = AfterIndexing(pathIdx, tagGroups)
    /\ UNCHANGED <<api, pathIdx, tagGroups, tagIdx, namingVars, typeVars, tagVars, reqVars, emitVars>>

\* generateClientCode, lines 49-65: one iteration of the loop over the paths.
IndexPath ==
    /\ pc = "index"
    /\ LET entry == PathEntries[pathIdx]
           index == IndexMethods(tagGroups, entry.key, entry.value, 1)
       IN  /\ tagGroups' = index
           /\ pathIdx' = pathIdx + 1
           /\ pc' = AfterIndexing(pathIdx + 1, index)
    /\ UNCHANGED <<api, tagIdx, computed, fsWrites, namingVars, typeVars, tagVars, reqVars, emitVars>>

\* generateClientCode, lines 68-73: one iteration of the loop over the groups:
\* the group's file is generated and written at once.
WriteTagFile ==
    /\ pc = "emit"
    /\ LET entry == GroupEntries[tagIdx]
           content == generateTagFile(entry.key, entry.value, api)
       IN  /\ computed' = Append(computed, TagFileName(entry.key))
           /\ fsWrites' = Append(fsWrites, [name |-> TagFileName(entry.key), content |-> content])
    /\ tagIdx' = tagIdx + 1
    /\ pc' = IF tagIdx = Len(GroupEntries) THEN "done" ELSE "emit"
    /\ UNCHANGED <<api, pathIdx, tagGroups, namingVars, typeVars, tagVars, reqVars, emitVars>>

Next == WriteTypesFile \/ IndexPath \/ WriteTagFile

Spec == Init /\ [][Next]_vars

SpecOrder == OrderInit /\ [][Next]_vars

(***************************************************************************)
(* Properties of the grouping and of the order of the writes               *)
(***************************************************************************)

\* The grouping loop has run to its end.
IndexComplete == pc \in {"emit", "done"}

\* The groups that hold the operation declared under the path with the method.
GroupsHolding(pathName, method) ==
    {tagGroups.groups[i].key : i \in
        {i \in 1..Len(tagGroups.groups) :
            \E k \in 1..Len(tagGroups.groups[i].value) :
                /\ tagGroups.groups[i].value[k].path = pathName
                /\ tagGroups.groups[i].value[k].method = method}}

\* C1: every operation declared under a path with one of the eight methods is
\* in exactly the groups of its tags and, when it has no tags (the field is
\* absent or an empty list), in exactly the group 'default'.
C1_GroupingTotal ==
    IndexComplete =>
        \A p \in 1..Len(api.paths) : \A m \in 1..Len(api.paths[p].value) :
            LET operation == api.paths[p].value[m].value
                declared == IF operation.tags = None \/ operation.tags[1] = <<>>
                            THEN {"default"}
                            ELSE SeqToSet(operation.tags[1])
            IN  api.paths[p].value[m].key \in SeqToSet(methods) =>
                    GroupsHolding(api.paths[p].key, api.paths[p].value[m].key) = declared

\* The tags of the operations the document declares, 'default' for an
\* operation without the field.
DocumentTags ==
    UNION {UNION {SeqToSet(TagsOf(api.paths[p].value[m].value)) :
                     m \in 1..Len(api.paths[p].value)} :
              p \in 1..Len(api.paths)}

\* Every artifact a run on the document is to produce.
DocumentArtifacts == {TypesFileName} \cup {TagFileName(t) : t \in DocumentTags}

\* C6: the content of every artifact has been computed before the first write
\* is attempted, so a run that fails while computing has written nothing.
C6_ComputedBeforeFirstWrite ==
    /\ fsWrites # <<>> => DocumentArtifacts \subseteq SeqToSet(computed)
    /\ pc = "failed" => fsWrites = <<>>

\* Positions in the document's declaration order, in the order of
\* Object.entries(api.paths), and in the generator's list of methods.
PositionIn(seq, key) == CHOOSE i \in 1..Len(seq) : seq[i].key = key
DeclaredPathPos(pathName) == PositionIn(api.paths, pathName)
DeclaredMethodPos(pathName, method) ==
    PositionIn(api.paths[DeclaredPathPos(pathName)].value, method)
EntryPathPos(pathName) == PositionIn(PathEntries, pathName)
MethodListPos(method) == CHOOSE i \in 1..Len(methods) : methods[i] = method

\* The names of the declarations of a group, operation by operation: the
\* request type, then the response type, of each schema given inline.
RECURSIVE InlineNames(_)
InlineNames(group) ==
    IF group = <<>> THEN <<>>
    ELSE LET operation == group[1].operation
             stem == toPascalCase(OperationName(operation))
         IN  (IF operation.requestBody # None /\ operation.requestBody[1].ref = None
              THEN <<stem \o <<"Request">>>> ELSE <<>>)
             \o (IF operation.response200 # None /\ operation.response200[1].ref = None
                 THEN <<stem \o <<"Response">>>> ELSE <<>>)
             \o InlineNames(Tail(group))

\* The files written follow the groups: callable k is the one of element k,
\* and the declarations are those of the elements in the group's order.
ArtifactsFollowGroups ==
    \A w \in 1..Len(fsWrites) : \A g \in 1..Len(tagGroups.groups) :
        (w > 1 /\ fsWrites[w].name = TagFileName(tagGroups.groups[g].key)) =>
            LET group == tagGroups.groups[g].value
                file == fsWrites[w].content
            IN  /\ Len(file.methods) = Len(group)
                /\ \A k \in 1..Len(group) :
                      /\ file.methods[k].url = group[k].path
                      /\ file.methods[k].method = MethodUpperCase(group[k].method)
                      /\ file.methods[k].name = toCamelCase(OperationName(group[k].operation))
                /\ [k \in 1..Len(file.types) |-> file.types[k].name] = InlineNames(group)

MaxGroupOps == 2

\* How an operation is named: by nothing, by its operationId, by its summary.
NameSources ==
    {<<None, None>>, <<Some(<<"a">>), None>>, <<None, Some(<<"A">>)>>}

BodySchemas == {None, Some(RefSchema(SchemaRef("User"))), Some(InlineObject)}

GroupItems ==
    {Item(Operation(n[1], n[2], Some(<<"x">>), req, res), "/p", method) :
        n \in NameSources, req \in BodySchemas, res \in BodySchemas,
        method \in {"post", "delete"}}

TagFileInit ==
    /\ api = Document(<<>>, OrderedRegistry)
    /\ gOps \in UNION {[1..n -> GroupItems] : n \in 0..MaxGroupOps}
    /\ gOut = NoArtifact
    /\ gPc = "idle"
    /\ NamingIdle
    /\ TypesIdle
    /\ GenIdle
    /\ ReqIdle
    /\ EmitIdle

\* generateTagFile(tag, operations, api)
CallGenerateTagFile ==
    /\ gPc = "idle"
    /\ gOut' = generateTagFile("x", gOps, api)
    /\ gPc' = "emitted"
    /\ UNCHANGED <<api, gOps, namingVars, typeVars, genVars, reqVars, emitVars>>

TagFileNext == CallGenerateTagFile

SpecTagFile == TagFileInit /\ [][TagFileNext]_vars

\* No two elements of the sequence have the same name.
DistinctNames(seq) ==
    \A i, j \in 1..Len(seq) : i # j => seq[i].name # seq[j].name

\* C5: in a group artifact no two exported callables have the same name and
\* no two exported type declarations have the same name.
C5_NamesUnique ==
    gPc = "emitted" => DistinctNames(gOut.methods) /\ DistinctNames(gOut.types)

\* The artifact declares a local type of the name.
DeclaresType(artifact, name) ==
    \E i \in 1..Len(artifact.types) : artifact.types[i].name = name

\* C2: for every operation of the group whose request (response) schema is a
\* bare $ref, the artifact declares no local type <TypeName(op)>Request
\* (<TypeName(op)>Response), and the data parameter (the result) of the callable
\* has the type ApiType.<last segment of the ref>.
C2_ReferenceNotInlined ==
    gPc = "emitted" =>
        \A k \in 1..Len(gOps) :
            LET operation == gOps[k].operation
                stem == toPascalCase(OperationName(operation))
                callable == gOut.methods[k]
            IN  /\ (operation.requestBody # None /\ operation.requestBody[1].ref # None) =>
                      /\ ~DeclaresType(gOut, stem \o <<"Request">>)
                      /\ \A i \in 1..Len(callable.params) :
                             callable.params[i].type =
                                 <<"ApiType.", Last(operation.requestBody[1].ref[1])>>
                /\ (operation.response200 # None /\ operation.response200[1].ref # None) =>
                      /\ ~DeclaresType(gOut, stem \o <<"Response">>)
                      /\ callable.returns =
                             <<"ApiType.", Last(operation.response200[1].ref[1])>>

(***************************************************************************)
(* A call of a generated callable through WechatRequestImpl and wxRequest  *)
(***************************************************************************)

\* The callable declares a parameter 'options' and hands it to request.
ForwardsOptions(callable) ==
    /\ callable.params # <<>> /\ Last(callable.params).name = "options"
    /\ "options" \in SeqToSet(callable.args)

RequestInit ==
    /\ api = Document(<<>>, OrderedRegistry)
    /\ rItem \in GroupItems
    /\ rCallable = NoCallable
    /\ rPc = "generate"
    /\ rSignal = "none" /\ rListening = FALSE
    /\ rTaskAborted = FALSE /\ rAbortedInFlight = FALSE
    /\ NamingIdle
    /\ TypesIdle
    /\ GenIdle
    /\ TagIdle
    /\ EmitIdle

\* generateMethod emits the callable.
EmitCallable ==
    /\ rPc = "generate"
    /\ rCallable' = generateMethod(rItem, api)
    /\ rPc' = "ready"
    /\ UNCHANGED <<api, rItem, rSignal, rListening, rTaskAborted, rAbortedInFlight,
                   namingVars, typeVars, genVars, tagVars, emitVars>>

\* The client calls the callable as the README shows, with { signal } as the
\* trailing argument.  The signal reaches WechatRequestImpl.request, and from
\* there wxRequest, only through a parameter the callable declares and hands
\* on; wxRequest starts the wx.request task and, given a signal, registers
\* its abort listener.
CallWithSignal ==
    /\ rPc = "ready"
    /\ rSignal' = "live"
    /\ rListening' = ForwardsOptions(rCallable)
    /\ rPc' = "inflight"
    /\ UNCHANGED <<api, rItem, rCallable, rTaskAborted, rAbortedInFlight,
                   namingVars, typeVars, genVars, tagVars, emitVars>>

\* The client calls the callable without options.
CallWithoutSignal ==
    /\ rPc = "ready"
    /\ rPc' = "inflight"
    /\ UNCHANGED <<api, rItem, rCallable, rSignal, rListening, rTaskAborted,
                   rAbortedInFlight, namingVars, typeVars, genVars, tagVars, emitVars>>

\* controller.abort(): the abort event runs wxRequest's listener, when one is
\* registered: task.abort() and reject(new AbortError(...)), which settles the
\* promise unless it is settled already.
Abort ==
    /\ rSignal = "live"
    /\ rSignal' = "aborted"
    /\ rAbortedInFlight' = (rPc = "inflight")
    /\ IF rListening
       THEN /\ rTaskAborted' = TRUE
            /\ rPc' = IF rPc = "inflight" THEN "rejected" ELSE rPc
       ELSE UNCHANGED <<rTaskAborted, rPc>>
    /\ UNCHANGED <<api, rItem, rCallable, rListening, namingVars, typeVars, genVars, tagVars, emitVars>>

\* wx.request calls success(res): the promise resolves and
\* WechatRequestImpl.request returns res.data for a 2xx status and throws an
\* ApiError for any other.
WxSuccess ==
    /\ rPc = "inflight"
    /\ ~rTaskAborted
    /\ \E statusCode \in {200, 404} :
           rPc' = IF statusCode >= 200 /\ statusCode < 300 THEN "resolved" ELSE "rejected"
    /\ UNCHANGED <<api, rItem, rCallable, rSignal, rListening, rTaskAborted,
                   rAbortedInFlight, namingVars, typeVars, genVars, tagVars, emitVars>>

\* wx.request calls fail(err): the promise rejects.
WxFail ==
    /\ rPc = "inflight"
    /\ rPc' = "rejected"
    /\ UNCHANGED <<api, rItem, rCallable, rSignal, rListening, rTaskAborted,
                   rAbortedInFlight, namingVars, typeVars, genVars, tagVars, emitVars>>

RequestNext ==
    EmitCallable \/ CallWithSignal \/ CallWithoutSignal \/ Abort \/ WxSuccess \/ WxFail

SpecRequest == RequestInit /\ [][RequestNext]_vars

\* A type expression that names a local type of the artifact: an operation's
\* <TypeName>Request or <TypeName>Response.
IsLocalType(type) == type # <<>> /\ Last(type) \in {"Request", "Response"}

\* C13: every local type name that a callable of a group artifact has as the
\* type of its data parameter (<TypeName(op)>Request) or as its result
\* (<TypeName(op)>Response) is the name of a type the artifact declares; a
\* type that is not local is 'any' or qualified with ApiType.
C13_LocalTypesDeclared ==
    gPc = "emitted" =>
        \A k \in 1..Len(gOut.methods) :
            LET callable == gOut.methods[k]
                stem == toPascalCase(OperationName(gOps[k].operation))
            IN  /\ \A i \in 1..Len(callable.params) :
                       IF IsLocalType(callable.params[i].type)
                       THEN /\ callable.params[i].type = stem \o <<"Request">>
                            /\ DeclaresType(gOut, callable.params[i].type)
                       ELSE \/ callable.params[i].type = <<"any">>
                            \/ callable.params[i].type[1] = "ApiType."
                /\ IF IsLocalType(callable.returns)
                   THEN /\ callable.returns = stem \o <<"Response">>
                        /\ DeclaresType(gOut, callable.returns)
                   ELSE \/ callable.returns = <<"any">>
                        \/ callable.returns[1] = "ApiType."

\* An artifact of two operations: one without operationId or summary whose
\* callable takes a local request type and returns a local response type, and
\* one whose callable refers to the global types only.
C13_Witness ==
    /\ gPc = "emitted"
    /\ Len(gOut.methods) = 2
    /\ \E k \in 1..2 :
           /\ OperationName(gOps[k].operation) = Unknown
           /\ gOut.methods[k].params # <<>>
           /\ IsLocalType(gOut.methods[k].params[1].type)
           /\ IsLocalType(gOut.methods[k].returns)
           /\ gOut.methods[3 - k].returns[1] = "ApiType."
           /\ gOut.methods[3 - k].params # <<>>
           /\ gOut.methods[3 - k].params[1].type = <<"any">>

\* C10: every emitted callable accepts a trailing 'options' parameter and
\* forwards it to the request primitive, so that aborting the signal while
\* the call is in flight aborts the underlying request and the call rejects.
C10_CancellationPassThrough ==
    /\ rPc # "generate" => ForwardsOptions(rCallable)
    /\ rAbortedInFlight => rTaskAborted /\ rPc = "rejected"

(***************************************************************************)
(* The Type Synthesizer applied to bounded schemas and registries          *)
(***************************************************************************)

MaxProps == 2

PropertyKeys == {"id", "name", "0"}
RegistryNames == {"User", "Item"}

\* The sequences over S of length at most n with no repeated key.
DistinctKeyed(S, n) ==
    {s \in UNION {[1..m -> S] : m \in 0..n} :
        \A i, j \in 1..Len(s) : i # j => s[i].key # s[j].key}

\* Schemas of properties, array items and union alternatives.
NestedSchemas ==
    {Primitive("string"), Primitive("integer"),
     RefSchema(SchemaRef("User")), RefSchema(SchemaRef("Missing")),
     ObjectSchema(<<[key |-> "id", value |-> Primitive("string")]>>, Some({"id"}))}

PropertySchemas ==
    {Primitive("string"), RefSchema(SchemaRef("Missing")),
     ObjectSchema(<<[key |-> "id", value |-> Primitive("string")]>>, Some({"id"}))}

RequiredLists ==
    {None, Some({}), Some({"id"}), Some({"id", "name"}), Some({"0", "ghost"})}

ObjectSchemas ==
    {ObjectSchema(props, req) :
        props \in DistinctKeyed([key : PropertyKeys, value : PropertySchemas], MaxProps),
        req \in RequiredLists}

TopSchemas ==
    ObjectSchemas
    \cup NestedSchemas
    \cup {EmptySchema, Primitive("object"), Primitive("boolean"), Primitive("number"),
          ArraySchema(None),
          RefSchema(SchemaRef("Item")), RefSchema(SchemaRef("constructor")),
          RefSchema(<<"#", "definitions", "User">>), RefSchema(<<"#", "components", "schemas", "">>)}
    \cup {ArraySchema(Some(s)) : s \in NestedSchemas}
    \cup {AnyOfSchema(alts) : alts \in {<<>>} \cup [1..2 -> NestedSchemas]}

\* What a registry entry is in the registries the schemas are synthesized against.
RegistrySchemas ==
    {Primitive("string"),
     ObjectSchema(<<[key |-> "name", value |-> Primitive("string")],
                    [key |-> "id", value |-> Primitive("integer")]>>, Some({"id"})),
     RefSchema(SchemaRef("User")), RefSchema(SchemaRef("Item")),
     RefSchema(SchemaRef("Missing"))}

Registries ==
    {None} \cup
    {Some(r) : r \in DistinctKeyed([key : RegistryNames, value : RegistrySchemas],
                                   Cardinality(RegistryNames))}

TypeName == <<"T">>

TypesInit ==
    /\ api \in {Document(<<>>, r) : r \in Registries}
    /\ tSchema \in TopSchemas
    /\ tGlobal \in BOOLEAN
    /\ tOut = RangeError
    /\ tPc = "idle"
    /\ NamingIdle
    /\ GenIdle
    /\ TagIdle
    /\ ReqIdle
    /\ EmitIdle

\* generateTypeFromSchema(schema, typeName, api, isGlobalType)
CallGenerateTypeFromSchema ==
    /\ tPc = "idle"
    /\ tOut' = generateTypeFromSchema(tSchema, TypeName, api, tGlobal)
    /\ tPc' = "declared"
    /\ UNCHANGED <<api, tSchema, tGlobal, namingVars, genVars, tagVars, reqVars, emitVars>>

\* getTypeFromSchema(schema, api, isGlobalType)
CallGetTypeFromSchema ==
    /\ tPc = "idle"
    /\ tOut' = AliasDecl(<<>>, getTypeFromSchema(tSchema, api, tGlobal), None)
    /\ tPc' = "typed"
    /\ UNCHANGED <<api, tSchema, tGlobal, namingVars, genVars, tagVars, reqVars, emitVars>>

TypesNext == CallGenerateTypeFromSchema \/ CallGetTypeFromSchema

SpecTypes == TypesInit /\ [][TypesNext]_vars

\* The schema a chain of top-level references ends in: the first schema
\* that is no reference, or the first reference that does not resolve.
RECURSIVE ChainEndFrom(_, _, _)
ChainEndFrom(schema, a, depth) ==
    IF schema.ref # None /\ resolveRef(schema.ref[1], a) # None /\ depth > 0
    THEN ChainEndFrom(resolveRef(schema.ref[1], a)[1], a, depth - 1)
    ELSE schema

ChainEnd(schema, a) == ChainEndFrom(schema, a, RegistrySize(a) + 1)

\* The document holds nothing at the place the reference names.
TargetAbsent(ref, a) ==
    ~(/\ Len(ref) = 4 /\ ref[2] = "components" /\ ref[3] = "schemas"
      /\ a.schemas # None /\ HasOwn(a.schemas[1], ref[4]))

BrokenRef(schema, a) == schema.ref # None /\ TargetAbsent(schema.ref[1], a)

\* The type of a nested schema when a broken reference is to read 'any'.
AnyIfBroken(schema, a, isGlobalType) ==
    IF BrokenRef(schema, a) THEN <<"any">> ELSE getTypeFromSchema(schema, a, isGlobalType)

\* C3: wherever a $ref whose target is absent from the document occurs (as the
\* schema of a declaration, as a property, as an array item, as a union
\* alternative), the type emitted for it is 'any', annotated with the broken
\* pointer where the declaration is the reference itself, and no error is raised.
C3_BrokenRefIsAnyEverywhere ==
    LET end == ChainEnd(tSchema, api)
        entries == ObjectEntries(end.properties[1])
    IN  /\ tPc = "typed" /\ BrokenRef(tSchema, api) => tOut.type = <<"any">>
        /\ tPc = "declared" /\ BrokenRef(end, api) =>
              tOut = AliasDecl(TypeName, <<"any">>, Some(end.ref[1]))
        /\ tPc = "declared" /\ tOut.form = "interface" =>
              \A i \in 1..Len(entries) :
                  BrokenRef(entries[i].value, api) => tOut.fields[i].type = <<"any">>
        /\ tPc = "declared" /\ end.ref = None /\ end.type = "array" /\ end.items # None =>
              tOut.type = AnyIfBroken(end.items[1], api, tGlobal) \o <<"[]">>
        /\ tPc = "declared" /\ end.ref = None /\ end.anyOf # None /\ tOut.form = "alias"
              /\ ~(end.type = "array" /\ end.items # None) =>
              tOut.type = JoinUnion([i \in 1..Len(end.anyOf[1]) |->
                                        AnyIfBroken(end.anyOf[1][i], api, tGlobal)])

\* C4: an object schema with property set P and required set R that
\* generateTypeFromSchema renders as an interface lists every property of P
\* exactly once and marks exactly the properties of P \ R optional (R = {} when
\* the schema has no required list).
C4_RequiredFieldFidelity ==
    tPc = "declared" /\ tOut.form = "interface" =>
        LET obj == ChainEnd(tSchema, api)
            P == {obj.properties[1][i].key : i \in 1..Len(obj.properties[1])}
            R == IF obj.required = None THEN {} ELSE obj.required[1]
            lines == tOut.fields
        IN  /\ \A k \in P : Cardinality({i \in 1..Len(lines) : lines[i].key = k}) = 1
            /\ \A i \in 1..Len(lines) : lines[i].key \in P
            /\ \A i \in 1..Len(lines) : lines[i].optional <=> lines[i].key \in P \ R

\* An interface, reached through a reference, with a required and an optional
\* property, whose required list also names a property the schema does not have.
C4_Witness ==
    /\ tPc = "declared" /\ tOut.form = "interface"
    /\ tSchema.required # None /\ "ghost" \in tSchema.required[1]
    /\ \E i, j \in 1..Len(tOut.fields) : tOut.fields[i].optional /\ ~tOut.fields[j].optional

\* The same through a reference into the registry.
C4_WitnessThroughRef ==
    /\ tPc = "declared" /\ tOut.form = "interface"
    /\ tSchema.ref # None
    /\ \E i, j \in 1..Len(tOut.fields) : tOut.fields[i].optional /\ ~tOut.fields[j].optional

\* An object schema with at least one declared property.
IsObjectWithProperties(schema) ==
    /\ schema.ref = None
    /\ schema.type = "object"
    /\ schema.properties # None
    /\ schema.properties[1] # <<>>

\* A type expression that is, or has as an alternative or item type, 'any'.
MentionsAny(type) == "any" \in SeqToSet(type)

\* C11: an object schema with at least one declared property is rendered as a
\* structural type listing its properties wherever it occurs: as the schema of
\* a declaration it gives an interface with one line per declared property, and
\* as the schema handed to getTypeFromSchema, as a property, as an array item
\* or as a union alternative it is never rendered as the permissive 'any'.
C11_StructuralAtEveryDepth ==
    LET end == ChainEnd(tSchema, api)
        entries == ObjectEntries(end.properties[1])
    IN  /\ tPc = "typed" /\ IsObjectWithProperties(tSchema) => tOut.type # <<"any">>
        /\ tPc = "declared" /\ IsObjectWithProperties(end) =>
              /\ tOut.form = "interface"
              /\ Len(tOut.fields) = Len(entries)
              /\ \A i \in 1..Len(entries) :
                     /\ tOut.fields[i].key = entries[i].key
                     /\ IsObjectWithProperties(entries[i].value) =>
                            tOut.fields[i].type # <<"any">>
        /\ tPc = "declared" /\ end.ref = None /\ end.type = "array" /\ end.items # None
              /\ IsObjectWithProperties(end.items[1]) =>
              tOut.type # <<"any", "[]">>
        /\ tPc = "declared" /\ end.ref = None /\ end.anyOf # None
              /\ (\A i \in 1..Len(end.anyOf[1]) :
                      \/ IsObjectWithProperties(end.anyOf[1][i])
                      \/ end.anyOf[1][i].ref # None
                      \/ end.anyOf[1][i].type \in {"string", "integer"})
              /\ (\E i \in 1..Len(end.anyOf[1]) : IsObjectWithProperties(end.anyOf[1][i])) =>
              ~MentionsAny(tOut.type)

(***************************************************************************)
(* The type emitters on registries with chains and cycles of references    *)
(***************************************************************************)

MaxEntries == 3

\* The names of the registry entries, in the registry's order.
EntryNames == SubSeq(<<"A", "B", "C", "D", "E">>, 1, MaxEntries)

\* What an entry is: a primitive, a reference to an entry (itself included)
\* or to no entry, an object whose property
\* refers to an entry (itself included), an array of and a union with the
\* first entry.
EntrySchemas ==
    {Primitive("string")}
    \cup {RefSchema(SchemaRef(n)) : n \in SeqToSet(EntryNames) \cup {"Missing"}}
    \cup {ObjectSchema(<<[key |-> "next", value |-> RefSchema(SchemaRef(n))]>>, None) :
              n \in SeqToSet(EntryNames)}
    \cup {ArraySchema(Some(RefSchema(SchemaRef("A")))),
          AnyOfSchema(<<Primitive("string"), RefSchema(SchemaRef("A"))>>)}

EntryRegistries ==
    {None} \cup
    UNION {{Some([i \in 1..n |-> [key |-> EntryNames[i], value |-> f[i]]]) :
               f \in [1..n -> EntrySchemas]} : n \in 0..MaxEntries}

\* The groups generateInlineTypes is given: bodies that are inline, that are
\* a reference, that are absent; inline bodies that refer to entries.
EmitOperations ==
    <<Item(Operation(Some(<<"a">>), None, None,
               Some(ObjectSchema(<<[key |-> "next", value |-> RefSchema(SchemaRef("A"))]>>, None)),
               Some(ArraySchema(Some(RefSchema(SchemaRef("B")))))), "/a", "post"),
      Item(Operation(Some(<<"b">>), None, None,
               Some(RefSchema(SchemaRef("A"))),
               Some(AnyOfSchema(<<RefSchema(SchemaRef("A")), Primitive("string")>>))), "/b", "post"),
      Item(Operation(None, None, None, None, Some(RefSchema(SchemaRef("B")))), "/c", "get")>>

EmitGroups ==
    {<<>>, <<EmitOperations[1]>>, <<EmitOperations[3]>>,
     <<EmitOperations[2], EmitOperations[1]>>, EmitOperations}

EmitInit ==
    /\ \E r \in EntryRegistries : api = Document(<<>>, r)
    /\ eOps = <<>>
    /\ eOut = <<>>
    /\ ePc = "idle"
    /\ NamingIdle
    /\ TypesIdle
    /\ GenIdle
    /\ TagIdle
    /\ ReqIdle

\* generateGlobalTypes(api)
CallGenerateGlobalTypes ==
    /\ ePc = "idle"
    /\ eOut' = generateGlobalTypes(api)
    /\ ePc' = "global"
    /\ UNCHANGED <<api, eOps, namingVars, typeVars, genVars, tagVars, reqVars>>

\* generateInlineTypes(operations, api)
CallGenerateInlineTypes ==
    /\ ePc = "idle"
    /\ \E operations \in EmitGroups :
           /\ eOps' = operations
           /\ eOut' = generateInlineTypes(operations, api)
    /\ ePc' = "inline"
    /\ UNCHANGED <<api, namingVars, typeVars, genVars, tagVars, reqVars>>

EmitNext == CallGenerateGlobalTypes \/ CallGenerateInlineTypes

SpecEmit == EmitInit /\ [][EmitNext]_vars

\* The entries of the registry, in the order generateGlobalTypes visits them.
RegistryEntries(a) == IF a.schemas = None THEN <<>> ELSE ObjectEntries(a.schemas[1])

\* The schema is a reference to the registry entry of the name.
RefersToEntry(schema, a, name) ==
    /\ schema.ref # None
    /\ schema.ref[1] = SchemaRef(name)
    /\ a.schemas # None /\ HasOwn(a.schemas[1], name)

\* The chain of top-level $ref schemas that starts at the entry `at` comes to
\* the entry `name` within the number of steps.
RECURSIVE ChainReaches(_, _, _, _)
ChainReaches(at, name, a, steps) ==
    LET schema == OwnValue(a.schemas[1], at)
        target == Last(schema.ref[1])
    IN  /\ steps > 0
        /\ schema.ref # None
        /\ RefersToEntry(schema, a, target)
        /\ (target = name \/ ChainReaches(target, name, a, steps - 1))

\* The entry reaches itself through a chain of top-level $ref schemas.
ReachesItself(name, a) == ChainReaches(name, name, a, RegistrySize(a))

NoEntryReachesItself(a) ==
    a.schemas # None =>
        \A i \in 1..Len(a.schemas[1]) : ~ReachesItself(a.schemas[1][i].key, a)

\* The declaration of a schema that is no reference to a resolvable target,
\* which takes no resolution: the fallback 'any' of a broken reference, the
\* interface of an object, the alias of anything else.
TerminalDecl(schema, name, a, isGlobalType) ==
    IF schema.ref # None THEN AliasDecl(name, <<"any">>, Some(schema.ref[1]))
    ELSE IF schema.type = "object" /\ schema.properties # None
    THEN InterfaceDecl(name,
             [i \in 1..Len(ObjectEntries(schema.properties[1])) |->
                 PropertyLine(schema, ObjectEntries(schema.properties[1])[i], a, isGlobalType)])
    ELSE IF schema.type = "array" /\ schema.items # None
    THEN AliasDecl(name, getTypeFromSchema(schema.items[1], a, isGlobalType) \o <<"[]">>, None)
    ELSE AliasDecl(name, getTypeFromSchema(schema, a, isGlobalType), None)

C12_NoOverflowOnAnyDocument == ePc \in {"global", "inline"} => ~Throws(eOut)

(***************************************************************************)
(* The naming functions applied to bounded strings                         *)
(***************************************************************************)

MaxStrLen == 3

NameAlphabet == {"a", "A", "1", "-", "_", " "}

NameStrings == UNION {[1..n -> NameAlphabet] : n \in 1..MaxStrLen}

NamingInit ==
    /\ api = Document(<<>>, None)
    /\ TypesIdle
    /\ GenIdle
    /\ TagIdle
    /\ ReqIdle
    /\ EmitIdle
    /\ nStr \in NameStrings
    /\ nOut = <<>>
    /\ nPc = "input"

CallToCamelCase ==
    /\ nPc = "input"
    /\ nOut' = toCamelCase(nStr)
    /\ nPc' = "camel"
    /\ UNCHANGED <<api, nStr, typeVars, genVars, tagVars, reqVars, emitVars>>

CallToPascalCase ==
    /\ nPc = "input"
    /\ nOut' = toPascalCase(nStr)
    /\ nPc' = "pascal"
    /\ UNCHANGED <<api, nStr, typeVars, genVars, tagVars, reqVars, emitVars>>

NamingNext == CallToCamelCase \/ CallToPascalCase

SpecNaming == NamingInit /\ [][NamingNext]_vars

\* C8: toCamelCase and toPascalCase return a result for every non-empty input
\* and each is idempotent on its own output.
C8_NamingIdempotent ==
    /\ nPc = "camel" => toCamelCase(nOut) = nOut
    /\ nPc = "pascal" => toPascalCase(nOut) = nOut

\* The first character upper-cased, the rest unchanged.
UpperFirst(s) == IF s = <<>> THEN s ELSE <<toUpperCase(s[1])>> \o Tail(s)

\* C9: toPascalCase tolerates '-', '_' and whitespace as toCamelCase does: its
\* output holds no separator, the character after a run of separators is
\* upper-cased and the first character is upper-cased.
C9_PascalSeparatorTolerance ==
    nPc = "pascal" =>
        /\ SeqToSet(nOut) \cap CamelSeparators = {}
        /\ nOut = UpperFirst(toCamelCase(nStr))

====
